---- MODULE Spec2Model ----
(***************************************************************************)
(* A model of the WebAssembly binary decoder of wasm-thing                 *)
(* (src/decode/decoder.rs, src/decode/mod.rs, src/types.rs).               *)
(*                                                                         *)
(* The decoder is a cursor over an in-memory byte slice.  Every method of  *)
(* Decoder is an action on the state (bytes, pos); the sub-decoders that   *)
(* run over a sliced-out section are operators computed as the code        *)
(* computes them.  u32 values are kept as two 16-bit limbs (hi, lo) so     *)
(* that the full 32-bit width, its truncation and its overflow are         *)
(* represented exactly.  SpecLoops follows decode_varuint and the two      *)
(* section decoders one loop iteration at a time.                          *)
(***************************************************************************)
EXTENDS Integers, Sequences, FiniteSets, TLC

VARIABLES
    bytes,     \* the input buffer the Cursor wraps (Cursor<&[u8]>)
    pos,       \* the Cursor's position: bytes consumed from the primary stream
    op,        \* the Decoder method called last ("new" after construction)
    size,      \* the `size` argument of the method called last (0 when it has none)
    start,     \* the Cursor's position when the method called last was entered
    result,    \* what the method called last returned (or that it panicked)
    pc,        \* decode_bytes' position: "api" when methods are called directly
    frame,     \* decode_bytes' (section_type, section_size) of the section read last
    module,    \* decode_bytes' WasmModule under construction
    locals     \* the locals of a method that is followed one loop iteration at a time

vars == <<bytes, pos, op, size, start, result, pc, frame, module, locals>>

(***************************************************************************)
(* Bounds of the model.                                                    *)
(***************************************************************************)
\* longest varuint byte run drawn for decode_varuint
MaxVarLen == 6
\* longest magic prefix drawn for read_validate
MaxMagicLen == 4
\* most function types in a generated type section
MaxTypes == 2
\* longest raw byte run drawn for the type section and the type descriptors
MaxRawLen == 3
\* longest buffer drawn for the opaque section decoders
MaxOpaqueLen == 4
\* most entries in a generated import section
MaxImports == 2
\* most sections in a generated module
MaxSections == 2

(***************************************************************************)
(* u32 arithmetic on 16-bit limbs.                                         *)
(***************************************************************************)
Limb == 256 * 256

U32(h, l) == [hi |-> h, lo |-> l]

\* a small natural number (< 2^31) as a u32
U32Of(n) == U32((n \div Limb) % Limb, n % Limb)

RECURSIVE Pow2(_)
Pow2(n) == IF n = 0 THEN 1 ELSE 2 * Pow2(n - 1)

\* x << s on u32 for s < 32: bits shifted past bit 31 are dropped
ShlU32(x, s) ==
    IF s < 16
    THEN LET lo0 == x.lo * Pow2(s)
             hi0 == x.hi * Pow2(s) + (lo0 \div Limb)
         IN  U32(hi0 % Limb, lo0 % Limb)
    ELSE U32((x.lo * Pow2(s - 16)) % Limb, 0)

\* u32::checked_shl: None exactly when the shift amount is >= 32
CheckedShl(x, rhs) ==
    IF rhs >= 32 THEN [some |-> FALSE, val |-> U32(0, 0)]
                 ELSE [some |-> TRUE, val |-> ShlU32(x, rhs)]

\* a + b on u32 with the carry out of bit 31
AddU32(a, b) ==
    LET lo0 == a.lo + b.lo
        hi0 == a.hi + b.hi + (lo0 \div Limb)
    IN  [val |-> U32(hi0 % Limb, lo0 % Limb), overflow |-> hi0 >= Limb]

\* i < n for a small index i and a u32 n (the range 0..n of a count-driven loop)
LtU32(i, n) == n.hi > 0 \/ i < n.lo

\* `x as u8` of a u32
AsU8(x) == x.lo % 256

(***************************************************************************)
(* Results.  A method returns Ok(value), Err(error) or panics; `pos` is    *)
(* the cursor the method leaves behind.                                    *)
(***************************************************************************)
NoError == [type |-> "none"]
NoValue == [none |-> TRUE]

Ok(v, p) == [status |-> "Ok", value |-> v, error |-> NoError, pos |-> p]
Err(e, p) == [status |-> "Err", value |-> NoValue, error |-> e, pos |-> p]
\* unreachable!() reached: the thread panics
Panic(p) == [status |-> "Panic", value |-> NoValue, error |-> NoError, pos |-> p]
\* `value += shifted` past u32::MAX: a panic with overflow checks, a wrap without
Overflow(p) == [status |-> "Overflow", value |-> NoValue, error |-> NoError, pos |-> p]

\* the ? operator: anything but Ok leaves the enclosing function at once
Failed(r) == r.status # "Ok"
\* (r is computed once and handed on as a value)
Try(r, Rest(_)) == CHOOSE y \in {IF Failed(x) THEN x ELSE Rest(x) : x \in {r}} : TRUE

IoError == [type |-> "Io"]

\* read_bytes_const! / read_bytes!: read_exact of n bytes at p, or the io error
CanRead(b, p, n) == p + n <= Len(b)
\* the same for a u32 byte count (`size as usize`)
CanReadU32(b, p, n) == n.hi = 0 /\ p + n.lo <= Len(b)
ReadBuf(b, p, n) == SubSeq(b, p + 1, p + n)

(***************************************************************************)
(* Decoder::decode_varuint                                                 *)
(***************************************************************************)
\* byte & 0x7f
PayloadBits(byte) == byte % 128

\* byte & 0x80 == 0
LastByte(byte) == byte < 128

\* the shift amount of byte i
ShiftAmountBy8(i) == i * 8
ShiftAmount(i) == i * 7

\* the loop goes round again with the value so far
Continue(v, p) == [status |-> "Continue", value |-> v, error |-> NoError, pos |-> p]

\* one iteration of `for i in 0..`: it goes round again, breaks with the
\* value, or leaves the function through `?`
VaruintIteration(b, p, i, value) ==
    IF ~CanRead(b, p, 1) THEN Err(IoError, p)
    ELSE LET byte == b[p + 1]
             shifted == CheckedShl(U32Of(PayloadBits(byte)), ShiftAmount(i))
         IN  IF ~shifted.some
             THEN Err([type |-> "Numeric", current_value |-> value,
                       invalid_byte |-> byte], p + 1)
             ELSE LET sum == AddU32(value, shifted.val)
                  IN  IF sum.overflow THEN Overflow(p + 1)
                      ELSE IF LastByte(byte) THEN Ok(sum.val, p + 1)
                      ELSE Continue(sum.val, p + 1)

Continued(r, Again(_)) ==
    CHOOSE y \in {IF x.status = "Continue" THEN Again(x) ELSE x : x \in {r}} : TRUE

RECURSIVE VaruintLoop(_, _, _, _)
VaruintLoop(b, p, i, value) ==
    Continued(VaruintIteration(b, p, i, value),
              LAMBDA r : VaruintLoop(b, r.pos, i + 1, r.value))

decode_varuint(b, p) == VaruintLoop(b, p, 0, U32(0, 0))

(***************************************************************************)
(* UTF-8 validation (String::from_utf8).  A String is kept as its bytes.   *)
(***************************************************************************)
IsCont(x) == x >= 128 /\ x <= 191

RECURSIVE ValidUtf8From(_, _)
ValidUtf8From(s, i) ==
    IF i > Len(s) THEN TRUE
    ELSE LET c == s[i]
             has(n) == i + n <= Len(s)
         IN  IF c < 128 THEN ValidUtf8From(s, i + 1)
             ELSE IF c >= 194 /\ c <= 223
             THEN has(1) /\ IsCont(s[i + 1]) /\ ValidUtf8From(s, i + 2)
             ELSE IF c >= 224 /\ c <= 239
             THEN /\ has(2)
                  /\ IsCont(s[i + 1]) /\ IsCont(s[i + 2])
                  /\ (c = 224 => s[i + 1] >= 160)
                  /\ (c = 237 => s[i + 1] <= 159)
                  /\ ValidUtf8From(s, i + 3)
             ELSE IF c >= 240 /\ c <= 244
             THEN /\ has(3)
                  /\ IsCont(s[i + 1]) /\ IsCont(s[i + 2]) /\ IsCont(s[i + 3])
                  /\ (c = 240 => s[i + 1] >= 144)
                  /\ (c = 244 => s[i + 1] <= 143)
                  /\ ValidUtf8From(s, i + 4)
             ELSE FALSE

ValidUtf8(s) == ValidUtf8From(s, 1)

\* String::from_utf8(..).unwrap_or_default()
Utf8OrDefault(s) == IF ValidUtf8(s) THEN s ELSE <<>>

(***************************************************************************)
(* Header: read_validate and read_version                                  *)
(***************************************************************************)
HEADER_MAGIC_BYTES == <<0, 97, 115, 100>>
FUNCTION_MAGIC_BYTES == <<96>>

MagicMatchesFirstThree(magic_bytes) == SubSeq(magic_bytes, 1, 3) = SubSeq(HEADER_MAGIC_BYTES, 1, 3)
MagicMatches(magic_bytes) == magic_bytes = HEADER_MAGIC_BYTES

read_validate(b, p) ==
    IF ~CanRead(b, p, 4) THEN Err(IoError, p)
    ELSE LET magic_bytes == ReadBuf(b, p, 4)
         IN  IF MagicMatches(magic_bytes) THEN Ok(<<>>, p + 4)
             ELSE Err([type |-> "Binary",
                       found |-> Utf8OrDefault(magic_bytes),
                       expected |-> Utf8OrDefault(HEADER_MAGIC_BYTES)], p + 4)

\* u32::from_le_bytes
FromLeBytes(v) == U32(v[4] * 256 + v[3], v[2] * 256 + v[1])

read_version(b, p) ==
    IF ~CanRead(b, p, 4) THEN Err(IoError, p)
    ELSE Ok(FromLeBytes(ReadBuf(b, p, 4)), p + 4)

(***************************************************************************)
(* Value types (types.rs)                                                  *)
(***************************************************************************)
\* impl From<u8> for WasmValueType: any other byte reaches unreachable!()
ValueTypeFromU8(x, p) ==
    CASE x = 127 -> Ok("I32", p)
      [] x = 126 -> Ok("I64", p)
      [] x = 125 -> Ok("F32", p)
      [] x = 124 -> Ok("F64", p)
      [] OTHER -> Panic(p)

\* impl From<VarUInt> for WasmValueType: `unsigned as u8`, then From<u8>
\* (p is the cursor, which the conversion leaves alone)
ValueTypeFromVarUInt(value, p) == ValueTypeFromU8(AsU8(value), p)

(***************************************************************************)
(* Type descriptors: decode_table_type, decode_memory_type,                *)
(* decode_global_type                                                      *)
(***************************************************************************)
None == <<>>
Some(x) == <<x>>

\* flags & 0x01 != 0
HasMax(flags) == flags % 2 # 0

\* the limits of a table or memory type: flags byte, min, optional max
LimitsMax(b, flags, min) ==
    IF HasMax(flags)
    THEN Try(decode_varuint(b, min.pos),
             LAMBDA max : Ok([min |-> min.value, max |-> Some(max.value)], max.pos))
    ELSE Ok([min |-> min.value, max |-> None], min.pos)

Limits(b, p) ==
    IF ~CanRead(b, p, 1) THEN Err(IoError, p)
    ELSE Try(decode_varuint(b, p + 1), LAMBDA min : LimitsMax(b, b[p + 1], min))

IsFuncrefByte(element_type_byte) == element_type_byte = 112

decode_table_type(b, p) ==
    IF ~CanRead(b, p, 1) THEN Err(IoError, p)
    ELSE IF ~IsFuncrefByte(b[p + 1])
    THEN Err([type |-> "ElementType", invalid_byte |-> b[p + 1]], p + 1)
    ELSE Try(Limits(b, p + 1),
             LAMBDA limits : Ok([element_type |-> "Funcref", limits |-> limits.value],
                                limits.pos))

decode_memory_type(b, p) ==
    Try(Limits(b, p), LAMBDA limits : Ok([limits |-> limits.value], limits.pos))

\* the mutability byte of a global type
GlobalMutability(b, p, value_type) ==
    IF ~CanRead(b, p, 1) THEN Err(IoError, p)
    ELSE IF b[p + 1] = 0
    THEN Ok([value_type |-> value_type, mutability |-> "Immutable"], p + 1)
    ELSE IF b[p + 1] = 1
    THEN Ok([value_type |-> value_type, mutability |-> "Mutable"], p + 1)
    ELSE Err([type |-> "MutabilityByte", invalid_byte |-> b[p + 1]], p + 1)

decode_global_type(b, p) ==
    IF ~CanRead(b, p, 1) THEN Err(IoError, p)
    ELSE Try(ValueTypeFromVarUInt(U32Of(b[p + 1]), p + 1),
             LAMBDA value_type : GlobalMutability(b, p + 1, value_type.value))

(***************************************************************************)
(* decode_type_section                                                     *)
(***************************************************************************)
\* the closure of read_value_types: a varuint converted to a value type
read_value_type(b, p) ==
    Try(decode_varuint(b, p), LAMBDA v : ValueTypeFromVarUInt(v.value, v.pos))

\* read_value_types: `count` varuints, each converted to a value type
RECURSIVE read_value_types(_, _, _, _, _)
read_value_types(b, p, i, count, acc) ==
    IF ~LtU32(i, count) THEN Ok(acc, p)
    ELSE Try(read_value_type(b, p),
             LAMBDA t : read_value_types(b, t.pos, i + 1, count, Append(acc, t.value)))

\* the two vectors of a function type, read after both counts
FunctionTypeVectors(b, p, param_count, return_count) ==
    Try(read_value_types(b, p, 0, param_count, <<>>),
        LAMBDA params :
            Try(read_value_types(b, params.pos, 0, return_count, <<>>),
                LAMBDA returns :
                    Ok([params |-> params.value, returns |-> returns.value], returns.pos)))

\* the head of a function type entry: the magic byte and the two counts
FunctionTypeCounts(b, p) ==
    IF ~CanRead(b, p, 1) THEN Err(IoError, p)
    ELSE IF ReadBuf(b, p, 1) # FUNCTION_MAGIC_BYTES
    THEN Err([type |-> "TypeSectionBytes"], p + 1)
    ELSE Try(decode_varuint(b, p + 1),
             LAMBDA param_count :
                 Try(decode_varuint(b, param_count.pos),
                     LAMBDA return_count :
                         Ok([param_count |-> param_count.value,
                             return_count |-> return_count.value], return_count.pos)))

\* the closure of decode_type_section: one function type entry
FunctionTypeEntry(b, p) ==
    Try(FunctionTypeCounts(b, p),
        LAMBDA counts :
            FunctionTypeVectors(b, counts.pos, counts.value.param_count,
                                counts.value.return_count))

RECURSIVE TypeItems(_, _, _, _, _)
TypeItems(b, p, i, count, acc) ==
    IF ~LtU32(i, count) THEN Ok(acc, p)
    ELSE Try(FunctionTypeEntry(b, p),
             LAMBDA item : TypeItems(b, item.pos, i + 1, count, Append(acc, item.value)))

\* the section decoder over the sliced-out section bytes
TypeSectionBody(section_bytes) ==
    Try(decode_varuint(section_bytes, 0),
        LAMBDA count : TypeItems(section_bytes, count.pos, 0, count.value, <<>>))

\* where the primary cursor stands after a section whose payload was sliced out
\* by its declared size: the sub-decoder's own position plays no part
SliceEndShared(p, n, sub_pos) == p + sub_pos
SliceEnd(p, n, sub_pos) == p + n

\* a section decoded from its slice: the outcome is the sub-decoder's, the
\* cursor is the primary one's; `sub` records how far the sub-decoder read
Sliced(kind, body, p, n) ==
    [status |-> body.status,
     value |-> IF body.status = "Ok" THEN [section |-> kind, items |-> body.value]
               ELSE NoValue,
     error |-> body.error,
     pos |-> SliceEnd(p, n, body.pos),
     sub |-> body.pos]

decode_type_section(b, p, n) ==
    IF ~CanReadU32(b, p, n) THEN Err(IoError, p)
    ELSE Sliced("Type", TypeSectionBody(ReadBuf(b, p, n.lo)), p, n.lo)

(***************************************************************************)
(* decode_import_section                                                   *)
(***************************************************************************)
\* the bytes of a name of the given length, through String::from_utf8
NameBytes(b, p, length) ==
    IF ~CanReadU32(b, p, length) THEN Err(IoError, p)
    ELSE IF ~ValidUtf8(ReadBuf(b, p, length.lo)) THEN Err([type |-> "FromUtf8"], p + length.lo)
    ELSE Ok(ReadBuf(b, p, length.lo), p + length.lo)

\* a length-prefixed name
ImportName(b, p) ==
    Try(decode_varuint(b, p), LAMBDA length : NameBytes(b, length.pos, length.value))

Tagged(tag, r) == Try(r, LAMBDA t : Ok([kind |-> tag, type |-> t.value], t.pos))

\* the descriptor the import kind byte selects
ImportDescriptorSwapped(b, p, import_kind) ==
    CASE import_kind = 0 -> Tagged("Function", decode_varuint(b, p))
      [] import_kind = 1 -> Tagged("Memory", decode_memory_type(b, p))
      [] import_kind = 2 -> Tagged("Table", decode_table_type(b, p))
      [] import_kind = 3 -> Tagged("Global", decode_global_type(b, p))
      [] OTHER -> Err([type |-> "InvalidImportKind", import_kind |-> import_kind], p)
ImportDescriptor(b, p, import_kind) ==
    CASE import_kind = 0 -> Tagged("Function", decode_varuint(b, p))
      [] import_kind = 1 -> Tagged("Table", decode_table_type(b, p))
      [] import_kind = 2 -> Tagged("Memory", decode_memory_type(b, p))
      [] import_kind = 3 -> Tagged("Global", decode_global_type(b, p))
      [] OTHER -> Err([type |-> "InvalidImportKind", import_kind |-> import_kind], p)

\* the kind byte and the descriptor of an entry whose names are read
ImportKindAndDescriptor(b, p, module_name, field_name) ==
    IF ~CanRead(b, p, 1) THEN Err(IoError, p)
    ELSE Try(ImportDescriptor(b, p + 1, b[p + 1]),
             LAMBDA descriptor :
                 Ok([module_name |-> module_name, field_name |-> field_name,
                     descriptor |-> descriptor.value], descriptor.pos))

\* one iteration of the import loop
ImportEntry(b, p) ==
    Try(ImportName(b, p),
        LAMBDA module_name :
            Try(ImportName(b, module_name.pos),
                LAMBDA field_name :
                    ImportKindAndDescriptor(b, field_name.pos, module_name.value,
                                            field_name.value)))

RECURSIVE ImportItems(_, _, _, _, _)
ImportItems(b, p, i, count, items) ==
    IF ~LtU32(i, count) THEN Ok(items, p)
    ELSE Try(ImportEntry(b, p),
             LAMBDA entry : ImportItems(b, entry.pos, i + 1, count,
                                        Append(items, entry.value)))

ImportSectionBody(section_bytes) ==
    Try(decode_varuint(section_bytes, 0),
        LAMBDA count : ImportItems(section_bytes, count.pos, 0, count.value, <<>>))

decode_import_section(b, p, n) ==
    IF ~CanReadU32(b, p, n) THEN Err(IoError, p)
    ELSE Sliced("Import", ImportSectionBody(ReadBuf(b, p, n.lo)), p, n.lo)

(***************************************************************************)
(* decode_dummy_section!: the opaque sections                              *)
(***************************************************************************)
SkipEndShort(p, n) == IF n > 0 THEN p + n - 1 ELSE p
SkipEnd(p, n) == p + n

decode_dummy_section(section, b, p, n) ==
    IF ~CanReadU32(b, p, n) THEN Err(IoError, p)
    ELSE Ok([section |-> section], SkipEnd(p, n.lo))

(***************************************************************************)
(* Method calls on a Decoder.                                              *)
(***************************************************************************)
\* Cursor::read_exact that fails leaves the position where it was or at the
\* end of the buffer, depending on the standard library the build links.
\* (A section's sub-decoder reads its own slice: its read errors do not touch
\* the primary cursor.)
CursorAfter(r, b) ==
    IF r.status = "Err" /\ r.error = IoError /\ "sub" \notin DOMAIN r
    THEN {r.pos, Len(b)}
    ELSE {r.pos}

\* what the caller sees, with how far a section's sub-decoder read (0 when the
\* method has none)
Outcome(r) ==
    [status |-> r.status, value |-> r.value, error |-> r.error,
     sub |-> IF "sub" \in DOMAIN r THEN r.sub ELSE 0]

NoResult == [status |-> "None", value |-> NoValue, error |-> NoError, sub |-> 0]

Returned == result.status \in {"None", "Ok", "Err"}

\* WasmModule::default(); `frames` keeps, per section consumed, the bytes its
\* header and its payload took
DefaultModule == [version |-> U32(0, 0), sections |-> <<>>, frames |-> <<>>]

NoFrame == [section_type |-> 0, section_size |-> U32(0, 0), header_len |-> 0]

\* no method is being followed through its loops
NoLocals == [buf |-> <<>>, p |-> 0, loops |-> <<>>, value |-> U32(0, 0),
             items |-> <<>>, params |-> <<>>, returns |-> <<>>, return_count |-> U32(0, 0)]

Call(name, sz, r) ==
    /\ pc = "api"
    /\ Returned
    /\ \E np \in CursorAfter(r, bytes) : pos' = np
    /\ op' = name
    /\ size' = sz
    /\ start' = pos
    /\ result' = Outcome(r)
    /\ UNCHANGED <<bytes, pc, frame, module, locals>>

NoSize == U32(0, 0)

DecodeVaruint == Call("decode_varuint", NoSize, decode_varuint(bytes, pos))

ReadValidate == Call("read_validate", NoSize, read_validate(bytes, pos))

ReadVersion == Call("read_version", NoSize, read_version(bytes, pos))

DecodeTableType == Call("decode_table_type", NoSize, decode_table_type(bytes, pos))

DecodeMemoryType == Call("decode_memory_type", NoSize, decode_memory_type(bytes, pos))

DecodeGlobalType == Call("decode_global_type", NoSize, decode_global_type(bytes, pos))

\* the sizes a caller passes: every size the buffer can satisfy, one byte too
\* many, and u32::MAX
Sizes == {U32(0, n) : n \in 0..(Len(bytes) - pos + 1)} \cup {U32(Limb - 1, Limb - 1)}

DecodeTypeSection ==
    \E n \in Sizes : Call("decode_type_section", n, decode_type_section(bytes, pos, n))

DecodeImportSection ==
    \E n \in Sizes : Call("decode_import_section", n, decode_import_section(bytes, pos, n))

DecodeCustomSection ==
    \E n \in Sizes :
        Call("decode_custom_section", n, decode_dummy_section("Custom", bytes, pos, n))

DecodeTableSection ==
    \E n \in Sizes :
        Call("decode_table_section", n, decode_dummy_section("Table", bytes, pos, n))

DecodeMemorySection ==
    \E n \in Sizes :
        Call("decode_memory_section", n, decode_dummy_section("Memory", bytes, pos, n))

DecodeGlobalSection ==
    \E n \in Sizes :
        Call("decode_global_section", n, decode_dummy_section("Global", bytes, pos, n))

DecodeStartSection ==
    \E n \in Sizes :
        Call("decode_start_section", n, decode_dummy_section("Start", bytes, pos, n))

DecodeElementSection ==
    \E n \in Sizes :
        Call("decode_element_section", n, decode_dummy_section("Element", bytes, pos, n))

(***************************************************************************)
(* The same methods one loop iteration at a time: the `for i in 0..` of    *)
(* decode_varuint, the (0..size) and (0..count) iterators of               *)
(* decode_type_section and the `for _ in 0..count` of                      *)
(* decode_import_section.  `locals` holds the reader the loops read from   *)
(* (buf, p), the loops entered and not left (innermost last) and what the  *)
(* method has collected.                                                   *)
(***************************************************************************)
\* `for i in 0..` has no upper end
NoCount == U32(Limb - 1, Limb - 1)

\* a loop on entry: `i` iterations completed, `from` the reader's position on
\* entry, `at` its position when the current iteration began, `stalled` whether
\* an iteration completed and left the reader where it was
Loop(name, count, p) ==
    [loop |-> name, i |-> 0, count |-> count, from |-> p, at |-> p, stalled |-> FALSE]

Top(l) == l.loops[Len(l.loops)]
Push(l, f) == [l EXCEPT !.loops = Append(@, f)]
Pop(l) == [l EXCEPT !.loops = SubSeq(@, 1, Len(@) - 1)]

\* the innermost loop completes an iteration with the reader at p
IterationDone(l, p) ==
    [l EXCEPT !.p = p,
              !.loops[Len(l.loops)] =
                  [@ EXCEPT !.i = @ + 1, !.at = p, !.stalled = @ \/ p <= Top(l).at]]

\* the innermost loop leaves the method through `?`, a `return Err` or a panic
IterationFailed(l, p) == [l EXCEPT !.p = p]

\* the method ends: it returns Ok or Err to its caller, or the thread unwinds
Return(r) ==
    /\ result' = Outcome(r)
    /\ pc' = IF r.status \in {"Ok", "Err"} THEN "returned" ELSE "panicked"
    /\ \E np \in CursorAfter(r, bytes) : pos' = np

\* a section decoder ends: the outcome is the sub-decoder's
ReturnSliced(kind, body) == Return(Sliced(kind, body, start, size.lo))

\* decode_varuint is entered
CallDecodeVaruint ==
    /\ pc = "call"
    /\ op' = "decode_varuint"
    /\ size' = NoSize
    /\ start' = pos
    /\ locals' = [NoLocals EXCEPT !.buf = bytes, !.p = pos,
                                  !.loops = <<Loop("varuint", NoCount, pos)>>]
    /\ pc' = "varuint"
    /\ UNCHANGED <<bytes, pos, result, frame, module>>

\* one iteration of its loop
VaruintStep ==
    /\ pc = "varuint"
    /\ \E r \in {VaruintIteration(locals.buf, locals.p, Top(locals).i, locals.value)} :
           CASE r.status = "Continue" ->
                    /\ locals' = IterationDone([locals EXCEPT !.value = r.value], r.pos)
                    /\ pos' = r.pos
                    /\ UNCHANGED <<pc, result>>
             [] r.status = "Ok" ->
                    /\ locals' = IterationDone([locals EXCEPT !.value = r.value], r.pos)
                    /\ Return(r)
             [] OTHER ->
                    /\ locals' = IterationFailed(locals, r.pos)
                    /\ Return(r)
    /\ UNCHANGED <<bytes, op, size, start, frame, module>>

\* a section decoder is entered: the slice, the sub-decoder, the count
CallSliced(name, kind, loop) ==
    /\ pc = "call"
    /\ \E n \in Sizes :
          /\ op' = name
          /\ size' = n
          /\ start' = pos
          /\ IF ~CanReadU32(bytes, pos, n)
             THEN /\ Return(Err(IoError, pos))
                  /\ locals' = locals
             ELSE \E section_bytes \in {ReadBuf(bytes, pos, n.lo)} :
                  \E count \in {decode_varuint(section_bytes, 0)} :
                  \E entered \in {[NoLocals EXCEPT !.buf = section_bytes, !.p = count.pos]} :
                      IF Failed(count)
                      THEN /\ Return(Sliced(kind, count, pos, n.lo))
                           /\ locals' = entered
                      ELSE /\ pos' = SliceEnd(pos, n.lo, count.pos)
                           /\ locals' = Push(entered, Loop(loop, count.value, count.pos))
                           /\ pc' = loop
                           /\ result' = result
    /\ UNCHANGED <<bytes, frame, module>>

CallDecodeTypeSection == CallSliced("decode_type_section", "Type", "type_items")

\* the items loop of decode_type_section at the head of an iteration: it is
\* over, or the magic byte and the two counts of the next entry are read
TypeItem ==
    /\ pc = "type_items"
    /\ IF ~LtU32(Top(locals).i, Top(locals).count)
       THEN /\ ReturnSliced("Type", Ok(locals.items, locals.p))
            /\ locals' = locals
       ELSE \E counts \in {FunctionTypeCounts(locals.buf, locals.p)} :
                IF Failed(counts)
                THEN /\ ReturnSliced("Type", counts)
                     /\ locals' = IterationFailed(locals, counts.pos)
                ELSE /\ locals' = Push([locals EXCEPT
                                            !.p = counts.pos,
                                            !.params = <<>>,
                                            !.returns = <<>>,
                                            !.return_count = counts.value.return_count],
                                       Loop("params", counts.value.param_count, counts.pos))
                     /\ pc' = "params"
                     /\ UNCHANGED <<pos, result>>
    /\ UNCHANGED <<bytes, op, size, start, frame, module>>

\* read_value_types(param_count, ..): one value type, or the vector is
\* complete and read_value_types(return_count, ..) is entered
ParamType ==
    /\ pc = "params"
    /\ IF ~LtU32(Top(locals).i, Top(locals).count)
       THEN /\ locals' = Push(Pop(locals), Loop("returns", locals.return_count, locals.p))
            /\ pc' = "returns"
            /\ UNCHANGED <<pos, result>>
       ELSE \E t \in {read_value_type(locals.buf, locals.p)} :
                IF Failed(t)
                THEN /\ ReturnSliced("Type", t)
                     /\ locals' = IterationFailed(locals, t.pos)
                ELSE /\ locals' = IterationDone([locals EXCEPT !.params = Append(@, t.value)],
                                                t.pos)
                     /\ UNCHANGED <<pc, pos, result>>
    /\ UNCHANGED <<bytes, op, size, start, frame, module>>

\* read_value_types(return_count, ..): one value type, or the vector is
\* complete and the iteration of the items loop with it
ReturnType ==
    /\ pc = "returns"
    /\ IF ~LtU32(Top(locals).i, Top(locals).count)
       THEN /\ locals' = IterationDone(
                             [Pop(locals) EXCEPT
                                 !.items = Append(@, [params |-> locals.params,
                                                      returns |-> locals.returns])],
                             locals.p)
            /\ pc' = "type_items"
            /\ UNCHANGED <<pos, result>>
       ELSE \E t \in {read_value_type(locals.buf, locals.p)} :
                IF Failed(t)
                THEN /\ ReturnSliced("Type", t)
                     /\ locals' = IterationFailed(locals, t.pos)
                ELSE /\ locals' = IterationDone([locals EXCEPT !.returns = Append(@, t.value)],
                                                t.pos)
                     /\ UNCHANGED <<pc, pos, result>>
    /\ UNCHANGED <<bytes, op, size, start, frame, module>>

CallDecodeImportSection == CallSliced("decode_import_section", "Import", "import_items")

\* one iteration of `for _ in 0..count` of decode_import_section, or its end
ImportItem ==
    /\ pc = "import_items"
    /\ IF ~LtU32(Top(locals).i, Top(locals).count)
       THEN /\ ReturnSliced("Import", Ok(locals.items, locals.p))
            /\ locals' = locals
       ELSE \E entry \in {ImportEntry(locals.buf, locals.p)} :
                IF Failed(entry)
                THEN /\ ReturnSliced("Import", entry)
                     /\ locals' = IterationFailed(locals, entry.pos)
                ELSE /\ locals' = IterationDone([locals EXCEPT !.items = Append(@, entry.value)],
                                                entry.pos)
                     /\ UNCHANGED <<pc, pos, result>>
    /\ UNCHANGED <<bytes, op, size, start, frame, module>>

(***************************************************************************)
(* decode_bytes: the header, then one section per iteration until the      *)
(* cursor is at the end.  Decoder::is_end, decode_section_type and         *)
(* decode_section and WasmModule are not among the source files; they are  *)
(* modelled from the specification of the dispatch loop.                   *)
(***************************************************************************)
\* while !decoder.is_end: the byte source has remaining bytes
is_end(b, p) == p >= Len(b)

\* one kind byte, then the varuint section size
decode_section_type(b, p) ==
    IF ~CanRead(b, p, 1) THEN Err(IoError, p)
    ELSE Try(decode_varuint(b, p + 1),
             LAMBDA section_size :
                 Ok([section_type |-> b[p + 1], section_size |-> section_size.value],
                    section_size.pos))

\* the decoder each section kind is routed to
SectionMethod(section_type) ==
    CASE section_type = 0 -> "decode_custom_section"
      [] section_type = 1 -> "decode_type_section"
      [] section_type = 2 -> "decode_import_section"
      [] section_type = 4 -> "decode_table_section"
      [] section_type = 5 -> "decode_memory_section"
      [] section_type = 6 -> "decode_global_section"
      [] section_type = 8 -> "decode_start_section"
      [] section_type = 9 -> "decode_element_section"
      [] OTHER -> "decode_section"

decode_section(b, p, section_type, section_size) ==
    CASE section_type = 0 -> decode_dummy_section("Custom", b, p, section_size)
      [] section_type = 1 -> decode_type_section(b, p, section_size)
      [] section_type = 2 -> decode_import_section(b, p, section_size)
      [] section_type = 4 -> decode_dummy_section("Table", b, p, section_size)
      [] section_type = 5 -> decode_dummy_section("Memory", b, p, section_size)
      [] section_type = 6 -> decode_dummy_section("Global", b, p, section_size)
      [] section_type = 8 -> decode_dummy_section("Start", b, p, section_size)
      [] section_type = 9 -> decode_dummy_section("Element", b, p, section_size)
      [] OTHER -> Err([type |-> "UnknownSection", section_type |-> section_type], p)

\* module.consume(section)
consume(m, section, f) ==
    [m EXCEPT !.sections = Append(@, section),
              !.frames = Append(@, f.header_len + f.section_size.lo)]

PcAfter(r) ==
    CASE r.status = "Ok" -> "sections"
      [] r.status = "Err" -> "failed"
      [] OTHER -> "panicked"

\* decoder.read_validate()?; module.version = decoder.read_version()?;
DecodeBytesHeader ==
    /\ pc = "header"
    /\ LET valid == read_validate(bytes, pos)
           r == Try(valid, LAMBDA ok : read_version(bytes, ok.pos))
       IN  /\ \E np \in CursorAfter(r, bytes) : pos' = np
           /\ op' = IF Failed(valid) THEN "read_validate" ELSE "read_version"
           /\ result' = Outcome(r)
           /\ pc' = PcAfter(r)
           /\ module' = IF Failed(r) THEN module ELSE [module EXCEPT !.version = r.value]
    /\ start' = pos
    /\ size' = NoSize
    /\ UNCHANGED <<bytes, frame, locals>>

\* one iteration of the loop: decode_section_type, decode_section, consume
DecodeBytesSection ==
    /\ pc = "sections"
    /\ ~is_end(bytes, pos)
    /\ LET header == decode_section_type(bytes, pos)
           f == IF Failed(header) THEN NoFrame
                ELSE [section_type |-> header.value.section_type,
                      section_size |-> header.value.section_size,
                      header_len |-> header.pos - pos]
           r == Try(header, LAMBDA h : decode_section(bytes, h.pos, h.value.section_type,
                                                      h.value.section_size))
       IN  /\ \E np \in CursorAfter(r, bytes) : pos' = np
           /\ op' = IF Failed(header) THEN "decode_section_type"
                    ELSE SectionMethod(f.section_type)
           /\ result' = Outcome(r)
           /\ pc' = PcAfter(r)
           /\ frame' = f
           /\ size' = f.section_size
           /\ module' = IF Failed(r) THEN module ELSE consume(module, r.value, f)
    /\ start' = pos
    /\ UNCHANGED <<bytes, locals>>

\* the loop ends: Ok(module)
DecodeBytesDone ==
    /\ pc = "sections"
    /\ is_end(bytes, pos)
    /\ pc' = "done"
    /\ op' = "decode_bytes"
    /\ result' = Outcome(Ok(module, pos))
    /\ start' = 0
    /\ size' = NoSize
    /\ UNCHANGED <<bytes, pos, frame, module, locals>>

(***************************************************************************)
(* Inputs.                                                                 *)
(***************************************************************************)
RECURSIVE SeqsOfLen(_, _)
SeqsOfLen(S, n) ==
    IF n = 0 THEN {<<>>}
    ELSE {Append(s, x) : s \in SeqsOfLen(S, n - 1), x \in S}

SeqsUpTo(S, n) == UNION {SeqsOfLen(S, k) : k \in 0..n}

InitApi(Inputs) ==
    /\ bytes \in Inputs
    /\ pos = 0
    /\ op = "new"
    /\ size = NoSize
    /\ start = 0
    /\ result = NoResult
    /\ pc = "api"
    /\ frame = NoFrame
    /\ module = DefaultModule
    /\ locals = NoLocals

\* The canonical LEB128 encoding of a u32: 7 low bits per byte, the high bit
\* set on every byte except the last.  (The repository has no encoder; this
\* is the encoding the round-trip property speaks of.)
ShrU32By7(x) == U32(x.hi \div 128, (x.lo \div 128) + (x.hi % 128) * 512)

RECURSIVE EncodeVaruint(_)
EncodeVaruint(x) ==
    LET rest == ShrU32By7(x)
        low == x.lo % 128
    IN  IF rest = U32(0, 0) THEN <<low>>
        ELSE <<low + 128>> \o EncodeVaruint(rest)

\* bytes drawn for a varuint run: by position, so that the fifth byte covers
\* payloads on both sides of 0x0f with and without the continuation bit
VarHeadBytes == {1, 127, 128, 255}
VarFifthBytes == {0, 15, 16, 127, 128, 143, 144, 255}
VarRestBytes == {0, 255}

VarByteAt(i) == IF i <= 4 THEN VarHeadBytes ELSE IF i = 5 THEN VarFifthBytes ELSE VarRestBytes

RECURSIVE VarRuns(_)
VarRuns(n) ==
    IF n = 0 THEN {<<>>}
    ELSE {Append(s, x) : s \in VarRuns(n - 1), x \in VarByteAt(n)}

RepLimbs == {0, 1, 127, 128, 255, 256, 16383, 16384, 32767, 32768, 65535}
RepU32 == {U32(h, l) : h \in RepLimbs, l \in RepLimbs}

\* each representative value with its canonical encoding
VaruintPairs == {<<v, EncodeVaruint(v)>> : v \in RepU32}

VaruintInputs ==
    (UNION {VarRuns(n) : n \in 0..MaxVarLen})
    \cup {e[2] \o t : e \in VaruintPairs, t \in {<<>>, <<5>>, <<128>>}}

InitVaruint == InitApi(VaruintInputs)
NextVaruint == DecodeVaruint
SpecVaruint == InitVaruint /\ [][NextVaruint]_vars

HeaderBytes == {0, 97, 115, 100, 109, 255}
HeaderTails == {<<>>, <<1, 0, 0, 0>>, <<1, 0>>, <<255, 255, 255, 255>>}
HeaderInputs == {h \o t : h \in SeqsUpTo(HeaderBytes, MaxMagicLen), t \in HeaderTails}

InitHeader == InitApi(HeaderInputs)
NextHeader == ReadValidate \/ ReadVersion
SpecHeader == InitHeader /\ [][NextHeader]_vars

\* The type section as the documented layout encodes it: the count, then per
\* entry 0x60, the parameter count and the parameters, the return count and
\* the returns.  (The repository has no encoder.)
ValueTypeByte(t) ==
    CASE t = "I32" -> 127
      [] t = "I64" -> 126
      [] t = "F32" -> 125
      [] t = "F64" -> 124

ValueTypeBytes(ts) == [i \in 1..Len(ts) |-> ValueTypeByte(ts[i])]

RECURSIVE Concat(_)
Concat(ss) == IF ss = <<>> THEN <<>> ELSE Head(ss) \o Concat(Tail(ss))

EncodeFunctionType(f) ==
    <<96>> \o EncodeVaruint(U32Of(Len(f.params))) \o ValueTypeBytes(f.params)
           \o EncodeVaruint(U32Of(Len(f.returns))) \o ValueTypeBytes(f.returns)

EncodeTypeSection(items) ==
    EncodeVaruint(U32Of(Len(items)))
        \o Concat([i \in 1..Len(items) |-> EncodeFunctionType(items[i])])

\* the same entries with both counts ahead of both vectors
EncodeFunctionTypeCountsFirst(f) ==
    <<96>> \o EncodeVaruint(U32Of(Len(f.params))) \o EncodeVaruint(U32Of(Len(f.returns)))
           \o ValueTypeBytes(f.params) \o ValueTypeBytes(f.returns)

EncodeTypeSectionCountsFirst(items) ==
    EncodeVaruint(U32Of(Len(items)))
        \o Concat([i \in 1..Len(items) |-> EncodeFunctionTypeCountsFirst(items[i])])

ValueTypeLists == {<<>>, <<"I32">>, <<"I64">>, <<"F32", "F64">>}
FunctionTypes == {[params |-> ps, returns |-> rs] : ps \in ValueTypeLists, rs \in ValueTypeLists}
TypeLists == SeqsUpTo(FunctionTypes, MaxTypes)

\* each generated type section with its documented encoding
TypeSectionPairs == {<<items, EncodeTypeSection(items)>> : items \in TypeLists}

TypeRawBytes == {0, 1, 96, 127, 255}

TypeInputs ==
    {e[2] : e \in TypeSectionPairs}
    \cup {EncodeTypeSectionCountsFirst(items) : items \in TypeLists}
    \cup SeqsUpTo(TypeRawBytes, MaxRawLen)

InitType == InitApi(TypeInputs)
NextType == DecodeTypeSection
SpecType == InitType /\ [][NextType]_vars

DescriptorBytes == {0, 1, 2, 112, 113, 124, 127, 128}
DescriptorInputs == SeqsUpTo(DescriptorBytes, MaxRawLen)

InitDescriptor == InitApi(DescriptorInputs)
NextDescriptor == DecodeTableType \/ DecodeMemoryType \/ DecodeGlobalType
SpecDescriptor == InitDescriptor /\ [][NextDescriptor]_vars

OpaqueBytes == {0, 96, 255}
OpaqueInputs == SeqsUpTo(OpaqueBytes, MaxOpaqueLen)

InitOpaque == InitApi(OpaqueInputs)
NextOpaque ==
    \/ DecodeCustomSection
    \/ DecodeTableSection
    \/ DecodeMemorySection
    \/ DecodeGlobalSection
    \/ DecodeStartSection
    \/ DecodeElementSection
SpecOpaque == InitOpaque /\ [][NextOpaque]_vars

\* The import section as the documented layout encodes it: the count, then per
\* entry the two length-prefixed names, the kind byte and the descriptor.
EncodeName(name) == EncodeVaruint(U32Of(Len(name))) \o name

EncodeLimits(limits) ==
    IF limits.max = None
    THEN <<0>> \o EncodeVaruint(limits.min)
    ELSE <<1>> \o EncodeVaruint(limits.min) \o EncodeVaruint(limits.max[1])

\* an entry of kind "Invalid" stands for a kind byte outside 0x00..0x03
EncodeDescriptor(d) ==
    CASE d.kind = "Function" -> <<0>> \o EncodeVaruint(d.type)
      [] d.kind = "Table" -> <<1, 112>> \o EncodeLimits(d.type.limits)
      [] d.kind = "Memory" -> <<2>> \o EncodeLimits(d.type.limits)
      [] d.kind = "Global" ->
            <<3, ValueTypeByte(d.type.value_type),
              IF d.type.mutability = "Immutable" THEN 0 ELSE 1>>
      [] d.kind = "Invalid" -> <<d.type.byte, 0>>

EncodeImportEntry(e) ==
    EncodeName(e.module_name) \o EncodeName(e.field_name) \o EncodeDescriptor(e.descriptor)

EncodeImportSection(items) ==
    EncodeVaruint(U32Of(Len(items)))
        \o Concat([i \in 1..Len(items) |-> EncodeImportEntry(items[i])])

Import(m, f, k, t) ==
    [module_name |-> m, field_name |-> f, descriptor |-> [kind |-> k, type |-> t]]

\* "mod", "field", "a", and U+00E9 in two bytes
NameMod == <<109, 111, 100>>
NameField == <<102, 105, 101, 108, 100>>
NameA == <<97>>
NameEAcute == <<195, 169>>

WellFormedImports ==
    {Import(NameMod, NameField, "Function", U32(0, 0)),
     Import(NameA, NameEAcute, "Table",
            [element_type |-> "Funcref",
             limits |-> [min |-> U32(0, 1), max |-> Some(U32(0, 300))]]),
     Import(<<>>, NameA, "Memory", [limits |-> [min |-> U32(0, 0), max |-> None]]),
     Import(NameA, <<>>, "Global", [value_type |-> "I32", mutability |-> "Immutable"]),
     Import(NameEAcute, <<>>, "Global", [value_type |-> "F64", mutability |-> "Mutable"])}

InvalidKindImports ==
    {Import(NameA, NameA, "Invalid", [byte |-> 4]),
     Import(<<>>, NameEAcute, "Invalid", [byte |-> 255])}

ImportLists == SeqsUpTo(WellFormedImports \cup InvalidKindImports, MaxImports)

\* each generated import section with its documented encoding
ImportSectionPairs == {<<items, EncodeImportSection(items)>> : items \in ImportLists}

\* a name that is not UTF-8, a payload cut short, a count with no entries
ImportRawInputs ==
    {<<1, 1, 255, 0, 0, 0>>, <<1, 3, 109, 111>>, <<2>>, <<1, 0, 0, 3, 0, 2>>,
     <<1, 0, 0, 1, 113, 0, 0>>}

ImportInputs == {e[2] : e \in ImportSectionPairs} \cup ImportRawInputs

InitImport == InitApi(ImportInputs)
NextImport == DecodeImportSection
SpecImport == InitImport /\ [][NextImport]_vars

\* Buffers for the loops: runs with the continuation bit on every byte, up to
\* one byte more than decode_varuint reads; counts of u32::MAX ahead of a few
\* entries or of none; and the sections and runs drawn above.
HugeCount == EncodeVaruint(NoCount)

AllHighBitRuns == {[k \in 1..n |-> x] : n \in 0..(MaxVarLen + 1), x \in {128, 255}}

HugeCountTypeSections ==
    {HugeCount, HugeCount \o <<96, 0, 0>>, HugeCount \o <<96, 0, 0, 96, 0, 0>>,
     HugeCount \o <<96, 1, 1, 127, 126, 96, 0, 0>>,
     <<1, 96>> \o HugeCount \o <<0, 127, 126, 125>>,
     <<1, 96, 0>> \o HugeCount \o <<127, 126>>,
     <<1, 96>> \o HugeCount \o HugeCount \o <<124>>,
     <<2, 96, 2, 0, 127, 127, 96>> \o HugeCount \o <<0, 127, 0>>}

HugeCountImportSections ==
    {HugeCount, HugeCount \o <<0, 0, 0, 0>>, HugeCount \o <<0, 0, 0, 0, 0, 0, 0, 0>>,
     <<1>> \o HugeCount \o <<97>>, <<1, 0>> \o HugeCount \o <<97, 0, 0>>}
    \cup {HugeCount \o EncodeImportEntry(e) : e \in WellFormedImports}

\* type sections whose entries hold a byte that is no value type
UnknownValueTypeSections ==
    {<<1, 96, 1, 0, 0>>, <<1, 96, 0, 1, 128, 1>>, <<2, 96, 0, 0, 96, 1, 1, 127, 123>>}

LoopInputs ==
    AllHighBitRuns
    \cup HugeCountTypeSections
    \cup UnknownValueTypeSections
    \cup HugeCountImportSections
    \cup (UNION {VarRuns(n) : n \in 0..MaxRawLen})
    \cup {e[2] : e \in VaruintPairs}
    \cup TypeInputs
    \cup ImportInputs

InitLoops ==
    /\ bytes \in LoopInputs
    /\ pos = 0
    /\ op = "new"
    /\ size = NoSize
    /\ start = 0
    /\ result = NoResult
    /\ pc = "call"
    /\ frame = NoFrame
    /\ module = DefaultModule
    /\ locals = NoLocals

NextLoops ==
    \/ CallDecodeVaruint
    \/ VaruintStep
    \/ CallDecodeTypeSection
    \/ TypeItem
    \/ ParamType
    \/ ReturnType
    \/ CallDecodeImportSection
    \/ ImportItem

\* a call runs to completion: nothing suspends or cancels it
SpecLoops == InitLoops /\ [][NextLoops]_vars /\ WF_vars(NextLoops)

\* Modules: a header, a version, and sections framed as kind, size, payload.
Framed(kind, payload) == <<kind>> \o EncodeVaruint(U32Of(Len(payload))) \o payload

\* the size of a short payload in two bytes (a padded varuint)
FramedPadded(kind, payload) == <<kind, 128 + Len(payload), 0>> \o payload

SectionChoices ==
    {Framed(0, <<>>), Framed(0, <<255, 96>>), FramedPadded(0, <<7, 7>>),
     Framed(1, <<0>>), Framed(1, <<0, 9, 9>>),
     Framed(1, EncodeTypeSection(<<[params |-> <<>>, returns |-> <<"I32">>]>>)),
     Framed(1, EncodeTypeSection(<<[params |-> <<"I32">>, returns |-> <<"I64">>]>>)),
     Framed(1, <<1, 97>>),
     Framed(2, EncodeImportSection(<<Import(NameMod, NameField, "Function", U32(0, 0))>>)),
     Framed(2, <<0, 7>>),
     Framed(4, <<1>>), Framed(5, <<1, 0, 1>>), Framed(6, <<>>),
     Framed(8, <<0>>), Framed(9, <<0>>),
     Framed(3, <<1, 0>>),
     <<0, 5, 1>>, <<1, 255>>, <<4>>}

ModuleHeaders == {HEADER_MAGIC_BYTES \o <<1, 0, 0, 0>>, <<0, 97, 115, 109, 1, 0, 0, 0>>,
                  HEADER_MAGIC_BYTES \o <<1, 0>>}

ModuleInputs ==
    {h \o Concat(ss) : h \in ModuleHeaders, ss \in SeqsUpTo(SectionChoices, MaxSections)}

Init ==
    /\ bytes \in ModuleInputs
    /\ pos = 0
    /\ op = "new"
    /\ size = NoSize
    /\ start = 0
    /\ result = NoResult
    /\ pc = "header"
    /\ frame = NoFrame
    /\ module = DefaultModule
    /\ locals = NoLocals

Next == DecodeBytesHeader \/ DecodeBytesSection \/ DecodeBytesDone
Spec == Init /\ [][Next]_vars

(***************************************************************************)
(* Properties.                                                             *)
(***************************************************************************)
\* the bytes of the buffer at offset p are exactly s
IsAt(s, b, p) == p + Len(s) <= Len(b) /\ SubSeq(b, p + 1, p + Len(s)) = s

\* the five 7-bit groups of a u32, least significant first (the last has 4 bits)
GroupsOf(v) ==
    <<v.lo % 128,
      (v.lo \div 128) % 128,
      (v.lo \div 16384) + (v.hi % 32) * 4,
      (v.hi \div 32) % 128,
      v.hi \div 4096>>

\* v is the mathematical sum of run[i] & 0x7f times 2^(7*(i-1))
IsSumOfGroups(v, run) ==
    /\ \A i \in 1..Len(run) : (run[i] % 128) = (IF i <= 5 THEN GroupsOf(v)[i] ELSE 0)
    /\ \A i \in 1..5 : i > Len(run) => GroupsOf(v)[i] = 0

\* the bytes the varuint call consumed
ConsumedRun == SubSeq(bytes, start + 1, pos)

\* the first n bytes at the call's offset all carry the continuation bit
Continues(n) ==
    /\ start + n <= Len(bytes)
    /\ \A i \in 1..n : bytes[start + i] >= 128

\* C1: decode_varuint never wraps or truncates: a run whose value does not fit
\* in 32 bits (a fifth byte with payload above 0x0f, or a sixth group) fails with
\* Numeric carrying the value accumulated so far and the offending byte, and an
\* Ok value is always the mathematical sum of the 7-bit groups consumed.
C1_VaruintNeverTruncates ==
    op = "decode_varuint" =>
        /\ result.status = "Ok" => IsSumOfGroups(result.value, ConsumedRun)
        /\ (Continues(4) /\ start + 5 <= Len(bytes) /\ bytes[start + 5] % 128 > 15) =>
              /\ result.status = "Err"
              /\ result.error.type = "Numeric"
              /\ result.error.invalid_byte = bytes[start + 5]
              /\ IsSumOfGroups(result.error.current_value, SubSeq(bytes, start + 1, start + 4))
        /\ (Continues(5) /\ bytes[start + 5] % 128 <= 15 /\ start + 6 <= Len(bytes)) =>
              /\ result.status = "Err"
              /\ result.error.type = "Numeric"
              /\ result.error.invalid_byte = bytes[start + 6]
              /\ IsSumOfGroups(result.error.current_value, SubSeq(bytes, start + 1, start + 5))

\* C2: varuint round trip: decode_varuint on the canonical LEB128 encoding of a
\* u32 v returns exactly v and leaves the cursor on the first byte after the
\* encoding.
C2_VaruintRoundTrip ==
    op = "decode_varuint" =>
        \A e \in VaruintPairs :
            IsAt(e[2], bytes, start) =>
                /\ result.status = "Ok"
                /\ result.value = e[1]
                /\ pos = start + Len(e[2])

C2_Witness ==
    /\ op = "decode_varuint"
    /\ start = 0
    /\ bytes = EncodeVaruint(U32(65535, 65535)) \o <<128>>
    /\ result.status = "Ok"
    /\ result.value = U32(65535, 65535)
    /\ pos = 5

WASM_MAGIC == <<0, 97, 115, 109>>

\* C4: header acceptance: read_validate succeeds on every input whose first four
\* bytes are the module magic \0asm (00 61 73 6D) and rejects every input whose
\* first four bytes differ from it.
C4_HeaderAcceptsWasmMagic ==
    (op = "read_validate" /\ start = 0 /\ Len(bytes) >= 4) =>
        (result.status = "Ok" <=> IsAt(WASM_MAGIC, bytes, 0))

\* C5 as stated: every input that does not start with 00 61 73 64, whatever its
\* length, fails read_validate with DecodeError::Binary.
C5_RejectsWithBinaryAnyLength ==
    (op = "read_validate" /\ start = 0 /\ ~IsAt(HEADER_MAGIC_BYTES, bytes, 0)) =>
        (result.status = "Err" /\ result.error.type = "Binary")

\* C5 amended: an input of at least four bytes that does not start with
\* 00 61 73 64 fails read_validate with DecodeError::Binary; an input shorter
\* than four bytes fails with the read error of read_exact instead.
C5_RejectsWithBinaryOrReadError ==
    (op = "read_validate" /\ start = 0 /\ ~IsAt(HEADER_MAGIC_BYTES, bytes, 0)) =>
        /\ result.status = "Err"
        /\ Len(bytes) >= 4 => result.error.type = "Binary"
        /\ Len(bytes) < 4 => result.error = IoError

C5_Witness ==
    /\ op = "read_validate"
    /\ start = 0
    /\ bytes = <<0, 97, 115, 109, 1, 0, 0, 0>>
    /\ result.status = "Err"
    /\ result.error.type = "Binary"
    /\ pos = 4

\* the declared size is n and fits the buffer at the call's offset
SizeIs(n) == size = U32(0, n)

\* C3: decode_type_section reads each entry as 0x60, the parameter count and
\* the parameters, the return count and the returns, and yields the entries in
\* declaration order; 01 60 01 7f 01 7e is one type with params [I32] and
\* returns [I64].
C3_TypeSectionDocumentedLayout ==
    op = "decode_type_section" =>
        \A e \in TypeSectionPairs :
            (SizeIs(Len(e[2])) /\ IsAt(e[2], bytes, start)) =>
                /\ result.status = "Ok"
                /\ result.value = [section |-> "Type", items |-> e[1]]

OpaqueMarker ==
    [decode_custom_section |-> "Custom", decode_table_section |-> "Table",
     decode_memory_section |-> "Memory", decode_global_section |-> "Global",
     decode_start_section |-> "Start", decode_element_section |-> "Element"]

\* C7: an opaque section decoder called with declared size N advances the
\* cursor by exactly N bytes, whatever they hold, and returns the payload-less
\* marker of its own kind when at least N bytes remain; with fewer it fails with
\* a read error and returns no marker.
C7_OpaqueSectionSkip ==
    op \in DOMAIN OpaqueMarker =>
        IF size.hi = 0 /\ start + size.lo <= Len(bytes)
        THEN /\ result.status = "Ok"
             /\ result.value = [section |-> OpaqueMarker[op]]
             /\ pos = start + size.lo
        ELSE /\ result.status = "Err"
             /\ result.error = IoError

C7_Witness ==
    /\ op = "decode_element_section"
    /\ start = 1
    /\ size = U32(0, 3)
    /\ bytes = <<0, 255, 96, 255>>
    /\ result.status = "Ok"
    /\ result.value = [section |-> "Element"]
    /\ pos = 4

\* the total conversion: the four value types, and Unsupported for the rest
ValueTypeTotal(x) ==
    CASE x = 127 -> "I32"
      [] x = 126 -> "I64"
      [] x = 125 -> "F32"
      [] x = 124 -> "F64"
      [] OTHER -> "UNSUPPORTED"

\* C9: value-type conversion is total: 0x7f, 0x7e, 0x7d, 0x7c are I32, I64, F32,
\* F64 and every other byte is the Unsupported variant, so decode_global_type
\* returns a value or a structured error for every value-type byte and never
\* aborts.
C9_ValueTypeConversionTotal ==
    (op = "decode_global_type" /\ start < Len(bytes)) =>
        /\ result.status \in {"Ok", "Err"}
        /\ result.status = "Ok" =>
              result.value.value_type = ValueTypeTotal(bytes[start + 1])

\* C10: decode_table_type fails with ElementType{invalid_byte: b} for every
\* element-type byte b other than 0x70, decode_global_type fails with
\* MutabilityByte{invalid_byte: b} for every mutability byte b other than 0x00
\* and 0x01, each error carrying the byte read; 0x70, 0x00 and 0x01 yield
\* Funcref, Immutable and Mutable.
C10_DiscriminantValidation ==
    /\ (op = "decode_table_type" /\ start < Len(bytes)) =>
          LET b == bytes[start + 1]
          IN  IF b # 112
              THEN /\ result.status = "Err"
                   /\ result.error = [type |-> "ElementType", invalid_byte |-> b]
              ELSE result.status = "Ok" => result.value.element_type = "Funcref"
    /\ (op = "decode_global_type" /\ start + 2 <= Len(bytes)) =>
          LET b == bytes[start + 2]
          IN  IF b \notin {0, 1}
              THEN /\ result.status = "Err"
                   /\ result.error = [type |-> "MutabilityByte", invalid_byte |-> b]
              ELSE result.status = "Ok" =>
                      result.value.mutability = (IF b = 0 THEN "Immutable" ELSE "Mutable")

\* the first entry of a generated import list whose kind byte is invalid, if any
InvalidAt(items) == {i \in 1..Len(items) : items[i].descriptor.kind = "Invalid"}
FirstInvalid(items) == CHOOSE i \in InvalidAt(items) : \A j \in InvalidAt(items) : i <= j

\* C6: decode_import_section on a well-formed payload returns an ImportSection
\* with exactly count entries in declaration order, each with its module name,
\* field name and the descriptor variant its kind byte selects (0x00 Function,
\* 0x01 Table, 0x02 Memory, 0x03 Global); a kind byte outside 0x00..0x03 makes
\* the whole section decode fail.
C6_ImportSectionDecodes ==
    op = "decode_import_section" =>
        \A e \in ImportSectionPairs :
            (SizeIs(Len(e[2])) /\ IsAt(e[2], bytes, start)) =>
                IF InvalidAt(e[1]) = {}
                THEN /\ result.status = "Ok"
                     /\ result.value = [section |-> "Import", items |-> e[1]]
                     /\ U32Of(Len(result.value.items)) = decode_varuint(e[2], 0).value
                ELSE /\ result.status = "Err"
                     /\ result.error =
                            [type |-> "InvalidImportKind",
                             import_kind |-> e[1][FirstInvalid(e[1])].descriptor.type.byte]

C6_Witness ==
    /\ op = "decode_import_section"
    /\ start = 0
    /\ bytes = <<1, 3, 109, 111, 100, 5, 102, 105, 101, 108, 100, 0, 0>>
    /\ size = U32(0, 13)
    /\ result.status = "Ok"
    /\ Len(result.value.items) = 1
    /\ result.value.items[1] = Import(NameMod, NameField, "Function", U32(0, 0))
    /\ pos = 13

RECURSIVE SumOf(_)
SumOf(ns) == IF ns = <<>> THEN 0 ELSE Head(ns) + SumOf(Tail(ns))

\* the number of bytes of the varuint at offset p: up to its first byte with
\* the high bit clear
RECURSIVE VaruintLen(_, _)
VaruintLen(b, p) == IF b[p + 1] < 128 THEN 1 ELSE 1 + VaruintLen(b, p + 1)

SlicedMethods == {"decode_type_section", "decode_import_section"}
SectionMethods == SlicedMethods \cup DOMAIN OpaqueMarker

ActiveLoops == {locals.loops[k] : k \in 1..Len(locals.loops)}

\* the bytes left to the reader when loop f was entered
RemainingAt(f) == Len(locals.buf) - f.from

\* no iteration completed without consuming a byte, no loop completed more
\* iterations than bytes were left when it was entered, and the varuint loop
\* has read at most 6 bytes
IterationsWithinInput ==
    \A f \in ActiveLoops :
        /\ ~f.stalled
        /\ f.i <= RemainingAt(f)
        /\ f.loop = "varuint" => locals.p - f.from <= 6

\* C11: termination bounded by input: every decode over a finite buffer ends
\* in a result or an error (it returns Ok or Err to its caller); every
\* iteration of the varuint loop and of the count-driven loops (type entries,
\* parameter and return value types, import entries) consumes at least one
\* byte or fails, the varuint loop reads at most 6 bytes, and no loop runs
\* more iterations than bytes remain, whatever counts the input declares.
C11_TerminationBoundedByInput == <>(pc = "returned") /\ []IterationsWithinInput


====
